---- MODULE Spec2Model ----
(***************************************************************************)
(* Model of the fox-lang lexer (src/src/lexer.rs).                         *)
(*                                                                         *)
(* A character is a one-element TLA+ string; a non-ASCII character is      *)
(* named by its code point ("U+00E9").  The source buffer is a sequence    *)
(* of characters; its UTF-8 bytes are derived with len_utf8, because the   *)
(* lexer counts characters in `current` and indexes the buffer by bytes.   *)
(***************************************************************************)
EXTENDS Integers, Sequences, FiniteSets, TLC

VARIABLES source, driver, lexer, pc, result, scanned, yielded, nones, expr, shown,
          status, prompted

vars ==
    <<source, driver, lexer, pc, result, scanned, yielded, nones, expr, shown,
      status, prompted>>

\* the lexer's variables and the variables of the expression printer
lexing == <<source, driver, lexer, pc, result, scanned, yielded, nones>>

printing == <<expr, shown>>

\* the variables of the process around them: its exit status, and the lines
\* the prompt loop has read
process == <<status, prompted>>

(***************************************************************************)
(* Bounds of the model.                                                    *)
(***************************************************************************)
\* an input is the concatenation of at most MaxChunks chunks
MaxChunks == 4
\* pulls answered with None that the model follows
MaxNones == 2
\* a line typed at the prompt is at most MaxLineChunks chunks and its newline
MaxLineChunks == 2
\* lines the prompt loop reads in the model
MaxLines == 2
\* an expression is a leaf wrapped at most MaxWraps times
MaxWraps == 3

(***************************************************************************)
(* Characters: the classes of char::is_whitespace, is_numeric,             *)
(* is_alphabetic, is_alphanumeric and char::len_utf8 on the characters     *)
(* the model uses.                                                         *)
(***************************************************************************)
NoChar == ""

AsciiDigits == {"0", "1", "2", "3", "4", "5", "6", "7", "8", "9"}

AsciiLetters ==
    {"a", "b", "c", "d", "e", "f", "g", "h", "i", "j", "k", "l", "m",
     "n", "o", "p", "q", "r", "s", "t", "u", "v", "w", "x", "y", "z",
     "A", "B", "C", "D", "E", "F", "G", "H", "I", "J", "K", "L", "M",
     "N", "O", "P", "Q", "R", "S", "T", "U", "V", "W", "X", "Y", "Z"}

AsciiOther ==
    {" ", "\n", "\t", "(", ")", "{", "}", ",", ";", ".", "-", "+", "*", "/",
     "!", "=", ">", "<", "\"", "_", "@", "#", "\\"}

\* U+00E9 e-acute (alphabetic), U+0663 arabic-indic digit three (numeric, Nd),
\* U+00BD one half (numeric, No), U+00A0 no-break space (whitespace): 2 bytes;
\* U+20AC euro sign (no class): 3 bytes
TwoByteChars == {"U+00E9", "U+0663", "U+00BD", "U+00A0"}

ThreeByteChars == {"U+20AC"}

Chars == AsciiDigits \cup AsciiLetters \cup AsciiOther \cup TwoByteChars \cup ThreeByteChars

len_utf8(ch) ==
    IF ch \in TwoByteChars THEN 2 ELSE IF ch \in ThreeByteChars THEN 3 ELSE 1

is_whitespace == {" ", "\n", "\t", "U+00A0"}

is_numeric == AsciiDigits \cup {"U+0663", "U+00BD"}

is_alphabetic == AsciiLetters \cup {"U+00E9"}

is_alphanumeric == is_alphabetic \cup is_numeric

(***************************************************************************)
(* The source buffer as bytes: &self.source[a..b] takes the bytes [a, b)   *)
(* and panics unless a <= b <= len and both ends are character boundaries. *)
(***************************************************************************)
RECURSIVE ByteLen(_)
ByteLen(s) == IF s = <<>> THEN 0 ELSE len_utf8(Head(s)) + ByteLen(Tail(s))

\* byte offset of the character after the first n characters of s
ByteOffset(s, n) == ByteLen(SubSeq(s, 1, n))

is_char_boundary(s, b) == \E n \in 0..Len(s) : ByteOffset(s, n) = b

SliceOk(s, a, b) ==
    /\ a <= b
    /\ b <= ByteLen(s)
    /\ is_char_boundary(s, a)
    /\ is_char_boundary(s, b)

\* the characters of s whose bytes lie in [a, b), when SliceOk(s, a, b)
Slice(s, a, b) ==
    LET first == CHOOSE n \in 0..Len(s) : ByteOffset(s, n) = a
        last  == CHOOSE n \in 0..Len(s) : ByteOffset(s, n) = b
    IN  SubSeq(s, first + 1, last)

(***************************************************************************)
(* str::parse::<f64>: Sign? ('inf' | 'infinity' | 'nan' | Number), with    *)
(* Number ::= (Digit+ | Digit+ '.' Digit* | Digit* '.' Digit+) Exp? and    *)
(* Exp ::= 'e' Sign? Digit+, letters in either case.  The value of a       *)
(* finite literal is kept exactly, as m * 10^e with m not a multiple of    *)
(* ten (short decimal literals map to distinct f64 values).                *)
(***************************************************************************)
Digits10 == <<"0", "1", "2", "3", "4", "5", "6", "7", "8", "9">>

DigitVal(ch) == (CHOOSE i \in 1..Len(Digits10) : Digits10[i] = ch) - 1

to_ascii_lowercase(ch) ==
    CASE ch = "I" -> "i" [] ch = "N" -> "n" [] ch = "F" -> "f"
      [] ch = "T" -> "t" [] ch = "Y" -> "y" [] ch = "A" -> "a"
      [] ch = "E" -> "e" [] OTHER -> ch

Lowered(t) == [i \in 1..Len(t) |-> to_ascii_lowercase(t[i])]

StripSign(t) == IF t # <<>> /\ Head(t) \in {"+", "-"} THEN Tail(t) ELSE t

IsDigits(t) == \A i \in 1..Len(t) : t[i] \in AsciiDigits

\* position of the first character of t that is in S, or Len(t) + 1
FirstIn(t, S) ==
    IF \E i \in 1..Len(t) : t[i] \in S
    THEN CHOOSE i \in 1..Len(t) : t[i] \in S /\ \A j \in 1..(i - 1) : t[j] \notin S
    ELSE Len(t) + 1

RECURSIVE DigitsValue(_)
DigitsValue(t) ==
    IF t = <<>> THEN 0
    ELSE 10 * DigitsValue(SubSeq(t, 1, Len(t) - 1)) + DigitVal(t[Len(t)])

RECURSIVE Normalised(_, _)
Normalised(m, e) ==
    IF m = 0 THEN <<0, 0>>
    ELSE IF m % 10 = 0 THEN Normalised(m \div 10, e + 1) ELSE <<m, e>>

NoNumber == [cls |-> "none", neg |-> FALSE, m |-> 0, e |-> 0]

\* `let x = v; ...`: the value is computed once and named in what follows
Bind(v, F(_)) == F(v)

ParseError == [ok |-> FALSE, num |-> NoNumber]

Parsed(cls, neg, nm) ==
    [ok |-> TRUE, num |-> [cls |-> cls, neg |-> neg, m |-> nm[1], e |-> nm[2]]]

\* integer part, fraction part and exponent text (after the 'e', if any)
parse_parts(neg, ip, fp, hasE, expT) ==
    IF /\ IsDigits(ip) /\ IsDigits(fp)
       /\ Len(ip) + Len(fp) >= 1
       /\ hasE => (StripSign(expT) # <<>> /\ IsDigits(StripSign(expT)))
    THEN Parsed("finite", neg,
                Normalised(DigitsValue(ip \o fp),
                           (IF hasE
                            THEN (IF Head(expT) = "-" THEN -1 ELSE 1)
                                     * DigitsValue(StripSign(expT))
                            ELSE 0) - Len(fp)))
    ELSE ParseError

parse_mantissa(neg, mant, dot, hasE, expT) ==
    parse_parts(neg, SubSeq(mant, 1, dot - 1), SubSeq(mant, dot + 1, Len(mant)), hasE, expT)

parse_number(neg, body, ePos) ==
    Bind(SubSeq(body, 1, ePos - 1), LAMBDA mant :
        parse_mantissa(neg, mant, FirstIn(mant, {"."}),
                       ePos <= Len(body), SubSeq(body, ePos + 1, Len(body))))

parse_unsigned(neg, body) ==
    IF body \in {<<"i", "n", "f">>, <<"i", "n", "f", "i", "n", "i", "t", "y">>}
    THEN Parsed("inf", neg, <<0, 0>>)
    ELSE IF body = <<"n", "a", "n">>
    THEN Parsed("nan", neg, <<0, 0>>)
    ELSE parse_number(neg, body, FirstIn(body, {"e"}))

ParseF64(text) ==
    parse_unsigned(text # <<>> /\ Head(text) = "-", Lowered(StripSign(text)))

(***************************************************************************)
(* Keyword::from_str: the 16 reserved words, matched exactly.              *)
(***************************************************************************)
KeywordTable ==
    { <<<<"l", "e", "t">>, "Let">>,
      <<<<"f", "n">>, "Fn">>,
      <<<<"r", "e", "t", "u", "r", "n">>, "Return">>,
      <<<<"c", "l", "a", "s", "s">>, "Class">>,
      <<<<"s", "u", "p", "e", "r">>, "Super">>,
      <<<<"t", "h", "i", "s">>, "This">>,
      <<<<"a", "n", "d">>, "And">>,
      <<<<"o", "r">>, "Or">>,
      <<<<"i", "f">>, "If">>,
      <<<<"e", "l", "s", "e">>, "Else">>,
      <<<<"t", "r", "u", "e">>, "True">>,
      <<<<"f", "a", "l", "s", "e">>, "False">>,
      <<<<"f", "o", "r">>, "For">>,
      <<<<"w", "h", "i", "l", "e">>, "While">>,
      <<<<"n", "i", "l">>, "Nil">>,
      <<<<"p", "r", "i", "n", "t">>, "Print">> }

NoKeyword == ""

\* Ok(kw) as the keyword's name, Err as NoKeyword
from_str(s) ==
    IF \E e \in KeywordTable : e[1] = s
    THEN (CHOOSE e \in KeywordTable : e[1] = s)[2]
    ELSE NoKeyword

(***************************************************************************)
(* The Lexer: `pos` is the number of characters the MultiPeek<Chars> has   *)
(* handed out with next(), `index` its peek index; current, line and       *)
(* at_eof are the struct's fields.  `stale` is not part of the struct: it  *)
(* records the largest peek index with which advance_while was entered.    *)
(***************************************************************************)
new ==
    [pos |-> 0, index |-> 0, current |-> 0, line |-> 1, at_eof |-> FALSE, stale |-> 0]

\* MultiPeek::peek: the character `index` places after the next one; the
\* index moves on only when there is such a character
peek(src, lx) ==
    IF lx.pos + lx.index < Len(src)
    THEN [ch |-> src[lx.pos + lx.index + 1], lx |-> [lx EXCEPT !.index = @ + 1]]
    ELSE [ch |-> NoChar, lx |-> lx]

reset_peek(lx) == [lx EXCEPT !.index = 0]

\* an advance that does not look for '\n': the line stays as it is
advance_same_line(src, lx) ==
    IF lx.pos < Len(src)
    THEN [ch |-> src[lx.pos + 1],
          lx |-> [lx EXCEPT !.pos = @ + 1, !.index = 0, !.current = @ + 1]]
    ELSE [ch |-> NoChar, lx |-> [lx EXCEPT !.index = 0]]

\* Lexer::advance: MultiPeek::next resets the peek index
advance(src, lx) ==
    IF lx.pos < Len(src)
    THEN LET ch == src[lx.pos + 1]
         IN  [ch |-> ch,
              lx |-> [lx EXCEPT !.pos = @ + 1,
                                !.index = 0,
                                !.current = @ + 1,
                                !.line = IF ch = "\n" THEN @ + 1 ELSE @]]
    ELSE [ch |-> NoChar, lx |-> [lx EXCEPT !.index = 0]]

\* Lexer::advance_while, the predicate given as the set of characters it accepts
RECURSIVE advance_while_loop(_, _, _, _)
advance_while_loop(src, lx, accepted, count) ==
    LET pk == peek(src, lx)
    IN  IF pk.ch # NoChar /\ pk.ch \in accepted
        THEN advance_while_loop(src, advance(src, pk.lx).lx, accepted, count + 1)
        ELSE [lx |-> reset_peek(pk.lx), count |-> count]

\* an advance_while that also consumes the character that ended the run
advance_while_over(src, lx, accepted) ==
    Bind(advance_while_loop(src, lx, accepted, 0), LAMBDA run :
        [lx |-> advance(src, run.lx).lx, count |-> run.count + 1])

advance_while(src, lx, accepted) ==
    advance_while_loop(src, [lx EXCEPT !.stale = IF lx.index > @ THEN lx.index ELSE @],
                       accepted, 0)

(***************************************************************************)
(* What a call hands back.  kind is "Ok" (a Token: ty, its payload in      *)
(* text / num / kw, and position start, end, line), "Err" (a SyntaxError:  *)
(* ty names it, offset and len are its span, ch the offending character),  *)
(* "None", or "Panic" (the call unwinds; ty tells at which operation).     *)
(* from, to and literal are not part of the value: from and to record how   *)
(* many characters the iterator had handed out before the first character  *)
(* of the lexeme and when the call returned, literal the text that         *)
(* number() handed to the float parser.                                    *)
(***************************************************************************)
Blank ==
    [kind |-> "None", ty |-> "", text |-> <<>>, num |-> NoNumber, kw |-> NoKeyword,
     ch |-> NoChar, start |-> 0, end |-> 0, line |-> 0, offset |-> 0, len |-> 0,
     from |-> 0, to |-> 0, literal |-> <<>>]

Ty(ty) == [Blank EXCEPT !.kind = "Ok", !.ty = ty]

Panic(what) == [Blank EXCEPT !.kind = "Panic", !.ty = what]

UnexpectedCharacter(start, ch) ==
    [Blank EXCEPT !.kind = "Err", !.ty = "UnexpectedCharacter",
                  !.offset = start, !.len = 1, !.ch = ch]

UnterminatedString(start) ==
    [Blank EXCEPT !.kind = "Err", !.ty = "UnterminatedString", !.offset = start, !.len = 1]

UnterminatedBlockComment(start) ==
    [Blank EXCEPT !.kind = "Err", !.ty = "UnterminatedBlockComment",
                  !.offset = start, !.len = 2]

\* Lexer::string
string(src, lx, start) ==
    Bind(advance_while(src, lx, Chars \ {"\""}), LAMBDA aw :
    Bind(advance(src, aw.lx), LAMBDA adv :
        IF adv.ch = NoChar
        THEN [lx |-> adv.lx, item |-> UnterminatedString(start)]
        ELSE IF SliceOk(src, start + 1, start + 1 + aw.count)
        THEN [lx   |-> adv.lx,
              item |-> [Ty("String") EXCEPT
                            !.text = Slice(src, start + 1, start + 1 + aw.count)]]
        ELSE [lx |-> adv.lx, item |-> Panic("slice")]))

\* the end of Lexer::number: the literal is source[start..=end], parsed and unwrapped
number_literal(src, lx, start, end) ==
    IF ~SliceOk(src, start, end + 1)
    THEN [lx |-> lx, item |-> Panic("slice")]
    ELSE Bind(Slice(src, start, end + 1), LAMBDA literal :
         Bind(ParseF64(literal), LAMBDA parsed :
            IF ~parsed.ok
            THEN [lx |-> lx, item |-> [Panic("unwrap") EXCEPT !.literal = literal]]
            ELSE [lx   |-> lx,
                  item |-> [Ty("Number") EXCEPT !.num = parsed.num, !.literal = literal]]))

\* the fraction of Lexer::number: '.', then a digit run
number_fraction(src, lx, start, len) ==
    Bind(advance_while(src, advance(src, lx).lx, is_numeric), LAMBDA aw2 :
        number_literal(src, reset_peek(aw2.lx), start, start + len + 1 + aw2.count))

\* a number() that takes a '.' after the digits whatever follows it
number_trailing_dot(src, lx, start) ==
    Bind(advance_while(src, lx, is_numeric), LAMBDA aw1 :
    Bind(peek(src, aw1.lx), LAMBDA p1 :
        IF p1.ch = "."
        THEN number_fraction(src, peek(src, p1.lx).lx, start, aw1.count)
        ELSE number_literal(src, reset_peek(p1.lx), start, start + aw1.count)))

\* Lexer::number
number(src, lx, start) ==
    Bind(advance_while(src, lx, is_numeric), LAMBDA aw1 :
    Bind(peek(src, aw1.lx), LAMBDA p1 :
        IF p1.ch = "."
        THEN Bind(peek(src, p1.lx), LAMBDA p2 :
                IF p2.ch # NoChar /\ p2.ch \in is_numeric
                THEN number_fraction(src, p2.lx, start, aw1.count)
                ELSE number_literal(src, reset_peek(p2.lx), start, start + aw1.count))
        ELSE number_literal(src, reset_peek(p1.lx), start, start + aw1.count)))

\* the end of Lexer::identifier: the literal is source[start..=end]
identifier_literal(src, lx, start, end) ==
    IF ~SliceOk(src, start, end + 1)
    THEN [lx |-> lx, item |-> Panic("slice")]
    ELSE Bind(Slice(src, start, end + 1), LAMBDA literal :
         Bind(from_str(literal), LAMBDA kw :
            IF kw # NoKeyword
            THEN [lx |-> lx, item |-> [Ty("Keyword") EXCEPT !.kw = kw]]
            ELSE [lx |-> lx, item |-> [Ty("Identifier") EXCEPT !.text = literal]]))

\* Lexer::identifier
identifier(src, lx, start) ==
    Bind(advance_while(src, lx, is_alphanumeric \cup {"_"}), LAMBDA aw :
        identifier_literal(src, aw.lx, start, start + aw.count))

\* a turn that does not nest: '/*' inside a comment is two ordinary characters
block_comment_turn_flat(src, lx) ==
    Bind(peek(src, lx), LAMBDA curr :
    Bind(peek(src, curr.lx), LAMBDA nxt :
        IF curr.ch = "*" /\ nxt.ch = "/"
        THEN [lx |-> advance(src, advance(src, nxt.lx).lx).lx, by |-> -1]
        ELSE [lx |-> advance(src, curr.lx).lx, by |-> 0]))

\* one turn of the loop of Lexer::block_comment, entered with the peek index
\* reset: the lexer after the turn and the change of the depth
block_comment_turn(src, lx) ==
    Bind(peek(src, lx), LAMBDA curr :
    Bind(peek(src, curr.lx), LAMBDA nxt :
        IF curr.ch = "/" /\ nxt.ch = "*"
        THEN [lx |-> advance(src, advance(src, nxt.lx).lx).lx, by |-> 1]
        ELSE IF curr.ch = "*" /\ nxt.ch = "/"
        THEN [lx |-> advance(src, advance(src, nxt.lx).lx).lx, by |-> -1]
        ELSE [lx |-> advance(src, curr.lx).lx, by |-> 0]))

\* Lexer::block_comment: the loop, then the verdict on the depth `count`
RECURSIVE block_comment_loop(_, _, _)
block_comment_loop(src, lx, count) ==
    IF count > 0 /\ peek(src, lx).ch # NoChar
    THEN Bind(block_comment_turn(src, reset_peek(peek(src, lx).lx)), LAMBDA turn :
            block_comment_loop(src, turn.lx, count + turn.by))
    ELSE [lx |-> lx, count |-> count]

block_comment(src, lx, start) ==
    Bind(block_comment_loop(src, lx, 1), LAMBDA done :
        IF done.count > 0
        THEN [lx |-> done.lx, item |-> UnterminatedBlockComment(start)]
        ELSE [lx |-> done.lx, item |-> Ty("Comment")])

(***************************************************************************)
(* Lexer::scan_token                                                       *)
(***************************************************************************)
SingleChar ==
    [ch \in {"(", ")", "{", "}", ",", ";", ".", "-", "+", "*"} |->
        CASE ch = "(" -> "LeftParen"  [] ch = ")" -> "RightParen"
          [] ch = "{" -> "LeftBrace"  [] ch = "}" -> "RightBrace"
          [] ch = "," -> "Comma"      [] ch = ";" -> "Semicolon"
          [] ch = "." -> "Dot"        [] ch = "-" -> "Minus"
          [] ch = "+" -> "Plus"       [] ch = "*" -> "Star"]

OneOrTwo ==
    [ch \in {"!", "=", ">", "<"} |->
        CASE ch = "!" -> <<"Bang", "BangEq">>       [] ch = "=" -> <<"Equal", "EqualEq">>
          [] ch = ">" -> <<"Greater", "GreaterEq">> [] ch = "<" -> <<"Less", "LessEq">>]

\* the line comment of the '/' arm, entered after the peek that saw the second '/'
line_comment(src, lx) ==
    Bind(advance_while(src, lx, Chars \ {"\n"}), LAMBDA aw :
    Bind(peek(src, aw.lx), LAMBDA pk :
        [lx   |-> IF pk.ch # NoChar THEN advance(src, pk.lx).lx ELSE pk.lx,
         item |-> Ty("Comment")]))

\* the '/' arm: line comment, block comment or Slash
slash(src, lx, start) ==
    Bind(peek(src, lx), LAMBDA nxt :
        IF nxt.ch = "/"
        THEN line_comment(src, nxt.lx)
        ELSE IF nxt.ch = "*"
        THEN block_comment(src, advance(src, nxt.lx).lx, start)
        ELSE [lx |-> nxt.lx, item |-> Ty("Slash")])

\* arms that consume the character they peeked whatever it is
one_or_two_eager(src, lx, ch) ==
    Bind(peek(src, lx), LAMBDA nxt :
        IF nxt.ch = "="
        THEN [lx |-> advance(src, nxt.lx).lx, item |-> Ty(OneOrTwo[ch][2])]
        ELSE [lx |-> advance(src, nxt.lx).lx, item |-> Ty(OneOrTwo[ch][1])])

\* the '!', '=', '>', '<' arms
one_or_two(src, lx, ch) ==
    Bind(peek(src, lx), LAMBDA nxt :
        IF nxt.ch = "="
        THEN [lx |-> advance(src, nxt.lx).lx, item |-> Ty(OneOrTwo[ch][2])]
        ELSE [lx |-> nxt.lx, item |-> Ty(OneOrTwo[ch][1])])

\* the match on the first character after the whitespace
dispatch(src, lx, start, ch) ==
    CASE ch \in DOMAIN SingleChar -> [lx |-> lx, item |-> Ty(SingleChar[ch])]
      [] ch = "/"                 -> slash(src, lx, start)
      [] ch \in DOMAIN OneOrTwo   -> one_or_two(src, lx, ch)
      [] ch = "\""                -> string(src, lx, start)
      [] OTHER ->
            IF ch \in is_numeric THEN number(src, lx, start)
            ELSE IF ch \in is_alphabetic THEN identifier(src, lx, start)
            ELSE [lx |-> lx, item |-> UnexpectedCharacter(start, ch)]

\* a position whose end is taken where the token starts
positioned_at_start(d, start, from) ==
    IF d.item.kind = "Ok"
    THEN [lx   |-> reset_peek(d.lx),
          item |-> [d.item EXCEPT !.start = start, !.end = start, !.line = d.lx.line,
                                  !.from = from, !.to = d.lx.pos]]
    ELSE [lx |-> d.lx, item |-> [d.item EXCEPT !.from = from, !.to = d.lx.pos]]

\* what the closure of scan_token returns for the outcome d of the match: a
\* token gets its position after reset_peek, an error is returned as it is
positioned(d, start, from) ==
    IF d.item.kind = "Ok"
    THEN [lx   |-> reset_peek(d.lx),
          item |-> [d.item EXCEPT !.start = start,
                                  !.end = d.lx.current,
                                  !.line = d.lx.line,
                                  !.from = from,
                                  !.to = d.lx.pos]]
    ELSE [lx |-> d.lx, item |-> [d.item EXCEPT !.from = from, !.to = d.lx.pos]]

Eof(lx) ==
    [Ty("Eof") EXCEPT !.start = lx.current, !.end = lx.current, !.line = lx.line,
                      !.from = lx.pos, !.to = lx.pos]

\* end_of_stream without the at_eof flag: Eof at every call at the end of input
end_of_stream_unflagged(lx) == [lx |-> lx, item |-> Eof(lx)]

\* the match on `token` that ends scan_token, when advance() yielded nothing
end_of_stream(lx) ==
    IF ~lx.at_eof
    THEN [lx |-> [lx EXCEPT !.at_eof = TRUE], item |-> Eof(lx)]
    ELSE [lx |-> lx, item |-> Blank]

scan_token(src, lx) ==
    Bind(advance_while(src, lx, is_whitespace), LAMBDA ws :
    Bind(advance(src, ws.lx), LAMBDA adv :
        IF adv.ch = NoChar
        THEN end_of_stream(adv.lx)
        ELSE positioned(dispatch(src, adv.lx, ws.lx.current, adv.ch),
                        ws.lx.current, ws.lx.pos)))

(***************************************************************************)
(* Iterator for Lexer: next() calls scan_token until it hands back         *)
(* something other than a Comment token; `scans` collects what the calls   *)
(* returned.                                                               *)
(***************************************************************************)
Scans(item) == IF item.kind \in {"Ok", "Err"} THEN <<item>> ELSE <<>>

\* next() that hands every scan_token result on, Comment tokens included
next_unfiltered(src, lx) ==
    Bind(scan_token(src, lx), LAMBDA r :
        [lx |-> r.lx, item |-> r.item, scans |-> Scans(r.item)])

RECURSIVE next_loop(_, _, _)
next_loop(src, lx, scans) ==
    Bind(scan_token(src, lx), LAMBDA r :
        IF r.item.kind = "Ok" /\ r.item.ty = "Comment"
        THEN next_loop(src, r.lx, Append(scans, r.item))
        ELSE [lx |-> r.lx, item |-> r.item, scans |-> scans \o Scans(r.item)])

next(src, lx) == next_loop(src, lx, <<>>)

(***************************************************************************)
(* Inputs: every concatenation of at most MaxChunks chunks, a chunk being  *)
(* one character of the alphabet or one of the comment delimiters.         *)
(***************************************************************************)
Alphabet == {"\n", "/", "*", "\"", "a", "1", "@", "U+00E9", "U+20AC"}

Chunks == {<<c>> : c \in Alphabet} \cup {<<"/", "*">>, <<"*", "/">>, <<"/", "/">>}

RECURSIVE InputsOf(_, _)
InputsOf(chunks, n) ==
    IF n = 0 THEN {<<>>}
    ELSE LET shorter == InputsOf(chunks, n - 1)
         IN  shorter \cup {s \o c : s \in shorter, c \in chunks}

Inputs == InputsOf(Chunks, MaxChunks)

(***************************************************************************)
(* The state machine: a client builds a Lexer over a source and pulls      *)
(* from it, through scan_token or through the Iterator as `driver` says.   *)
(* scanned is what the scan_token calls returned so far, yielded what      *)
(* Iterator::next returned (None left out of both); nones counts the       *)
(* pulls answered None.  A panic ends the run.                             *)
(***************************************************************************)
(***************************************************************************)
(* Token::lexeme.  A token is an item of kind "Ok"; its position plays no  *)
(* part in the lexeme.                                                     *)
(***************************************************************************)
Fixed ==
    [ty \in {"LeftParen", "RightParen", "LeftBrace", "RightBrace", "Comma", "Semicolon",
             "Dot", "Minus", "Plus", "Slash", "Star", "Bang", "BangEq", "Equal",
             "EqualEq", "Greater", "GreaterEq", "Less", "LessEq", "Comment", "Eof"} |->
        CASE ty = "LeftParen" -> <<"(">>       [] ty = "RightParen" -> <<")">>
          [] ty = "LeftBrace" -> <<"{">>       [] ty = "RightBrace" -> <<"}">>
          [] ty = "Comma"     -> <<",">>       [] ty = "Semicolon"  -> <<";">>
          [] ty = "Dot"       -> <<".">>       [] ty = "Minus"      -> <<"-">>
          [] ty = "Plus"      -> <<"+">>       [] ty = "Slash"      -> <<"/">>
          [] ty = "Star"      -> <<"*">>       [] ty = "Bang"       -> <<"!">>
          [] ty = "BangEq"    -> <<"!", "=">>  [] ty = "Equal"      -> <<"=">>
          [] ty = "EqualEq"   -> <<"=", "=">>  [] ty = "Greater"    -> <<">">>
          [] ty = "GreaterEq" -> <<">", "=">>  [] ty = "Less"       -> <<"<">>
          [] ty = "LessEq"    -> <<"<", "=">>
          [] ty = "Comment"   -> <<"<", "c", "o", "m", "m", "e", "n", "t", ">">>
          [] ty = "Eof"       -> <<"<", "e", "o", "f", ">">>]

\* Keyword::lexeme
keyword_lexeme(kw) ==
    CASE kw = "Let"    -> <<"l", "e", "t">>
      [] kw = "Fn"     -> <<"f", "n">>
      [] kw = "Return" -> <<"r", "e", "t", "u", "r", "n">>
      [] kw = "Class"  -> <<"c", "l", "a", "s", "s">>
      [] kw = "Super"  -> <<"s", "u", "p", "e", "r">>
      [] kw = "This"   -> <<"t", "h", "i", "s">>
      [] kw = "And"    -> <<"a", "n", "d">>
      [] kw = "Or"     -> <<"o", "r">>
      [] kw = "If"     -> <<"i", "f">>
      [] kw = "Else"   -> <<"e", "l", "s", "e">>
      [] kw = "True"   -> <<"t", "r", "u", "e">>
      [] kw = "False"  -> <<"f", "a", "l", "s", "e">>
      [] kw = "For"    -> <<"f", "o", "r">>
      [] kw = "While"  -> <<"w", "h", "i", "l", "e">>
      [] kw = "Nil"    -> <<"n", "i", "l">>
      [] kw = "Print"  -> <<"p", "r", "i", "n", "t">>

\* the decimal digits of a natural number
RECURSIVE DigitsOf(_)
DigitsOf(n) ==
    IF n < 10 THEN <<Digits10[n + 1]>>
    ELSE Append(DigitsOf(n \div 10), Digits10[(n % 10) + 1])

Zeros(n) == [i \in 1..n |-> "0"]

\* the digits d of the mantissa with the point k places from their end, k > 0
Pointed(d, k) ==
    IF Len(d) > k
    THEN SubSeq(d, 1, Len(d) - k) \o <<".">> \o SubSeq(d, Len(d) - k + 1, Len(d))
    ELSE <<"0", ".">> \o Zeros(k - Len(d)) \o d

\* f64's to_string (Display without precision): the shortest digits that
\* read back as the value, never in exponent form; "NaN" without a sign,
\* "inf", and the sign of a negative zero kept
f64_to_string(num) ==
    IF num.cls = "nan" THEN <<"N", "a", "N">>
    ELSE (IF num.neg THEN <<"-">> ELSE <<>>) \o
         (IF num.cls = "inf" THEN <<"i", "n", "f">>
          ELSE IF num.e >= 0 THEN DigitsOf(num.m) \o Zeros(IF num.m = 0 THEN 0 ELSE num.e)
          ELSE Pointed(DigitsOf(num.m), -num.e))

lexeme(token) ==
    CASE token.ty \in DOMAIN Fixed -> Fixed[token.ty]
      [] token.ty = "Identifier"   -> token.text
      [] token.ty = "String"       -> token.text
      [] token.ty = "Number"       -> f64_to_string(token.num)
      [] token.ty = "Keyword"      -> keyword_lexeme(token.kw)

(***************************************************************************)
(* Expr (src/src/expr.rs) and its Display.  A Literal holds an             *)
(* Option<String> or an Option<f64>: `some` tells whether a value is there.*)
(***************************************************************************)
LiteralString(some, text) ==
    [kind |-> "Literal", ty |-> "String", some |-> some, text |-> text, num |-> NoNumber]

LiteralNumber(some, num) ==
    [kind |-> "Literal", ty |-> "Number", some |-> some, text |-> <<>>, num |-> num]

Grouping(e) == [kind |-> "Grouping", expr |-> e]

Unary(operator, rhs) == [kind |-> "Unary", operator |-> operator, rhs |-> rhs]

Binary(lhs, operator, rhs) ==
    [kind |-> "Binary", lhs |-> lhs, operator |-> operator, rhs |-> rhs]

\* a Display that prints a Binary with its operator between the operands
RECURSIVE fmt_infix(_)
fmt_infix(e) ==
    CASE e.kind = "Binary" ->
            <<"(">> \o fmt_infix(e.lhs) \o <<" ">> \o lexeme(e.operator) \o <<" ">>
                \o fmt_infix(e.rhs) \o <<")">>
      [] e.kind = "Grouping" ->
            <<"(">> \o <<"g", "r", "o", "u", "p", " ">> \o fmt_infix(e.expr) \o <<")">>
      [] e.kind = "Literal" ->
            IF e.some
            THEN (IF e.ty = "String" THEN e.text ELSE f64_to_string(e.num))
            ELSE <<"n", "i", "l">>
      [] e.kind = "Unary" ->
            <<"(">> \o lexeme(e.operator) \o <<" ">> \o fmt_infix(e.rhs) \o <<")">>

\* Display for Expr: fmt, and with it to_string
RECURSIVE fmt(_)
fmt(e) ==
    CASE e.kind = "Binary" ->
            <<"(">> \o lexeme(e.operator) \o <<" ">> \o fmt(e.lhs) \o <<" ">>
                \o fmt(e.rhs) \o <<")">>
      [] e.kind = "Grouping" ->
            <<"(">> \o <<"g", "r", "o", "u", "p", " ">> \o fmt(e.expr) \o <<")">>
      [] e.kind = "Literal" ->
            IF e.some
            THEN (IF e.ty = "String" THEN e.text ELSE f64_to_string(e.num))
            ELSE <<"n", "i", "l">>
      [] e.kind = "Unary" ->
            <<"(">> \o lexeme(e.operator) \o <<" ">> \o fmt(e.rhs) \o <<")">>

\* no expression is at hand: the run is one of the lexer alone
NoExpr == [kind |-> "None"]

\* no process is modelled, or the process has not ended
NoStatus == "running"

\* a Lexer is built over one of `inputs`; nothing is printed in such a run
LexerOver(inputs) ==
    /\ source \in inputs
    /\ driver \in {"scan_token", "next"}
    /\ lexer = new
    /\ pc = "ready"
    /\ result = [Blank EXCEPT !.kind = "Start"]
    /\ scanned = <<>>
    /\ yielded = <<>>
    /\ nones = 0
    /\ expr = NoExpr
    /\ shown = <<>>
    /\ status = NoStatus
    /\ prompted = 0

Init == LexerOver(Inputs)

Returned(item, scans, yields) ==
    /\ result' = item
    /\ pc' = IF item.kind = "Panic" THEN "panicked" ELSE "ready"
    /\ scanned' = scanned \o scans
    /\ yielded' = yielded \o yields
    /\ nones' = IF item.kind = "None" THEN nones + 1 ELSE nones
    /\ UNCHANGED <<source, driver, printing, process>>

ScanToken ==
    /\ pc = "ready"
    /\ driver = "scan_token"
    /\ nones < MaxNones
    /\ Bind(scan_token(source, lexer), LAMBDA r :
          /\ lexer' = r.lx
          /\ Returned(r.item, Scans(r.item), <<>>))

IterNext ==
    /\ pc = "ready"
    /\ driver = "next"
    /\ nones < MaxNones
    /\ Bind(next(source, lexer), LAMBDA r :
          /\ lexer' = r.lx
          /\ Returned(r.item, r.scans, Scans(r.item)))

Next == ScanToken \/ IterNext

Spec == Init /\ [][Next]_vars

(***************************************************************************)
(* The same machine over inputs of words and string literals: the keyword  *)
(* `let`, letters in both cases, the underscore, a digit, quotes, a        *)
(* backslash, blanks and a two-byte letter.                                *)
(***************************************************************************)
WordChunks ==
    {<<"l", "e", "t">>} \cup
    {<<c>> : c \in {"s", "L", "e", "t", "_", "1", " ", "\n", "\"", "\\", "U+00E9"}}

InitWords == LexerOver(InputsOf(WordChunks, MaxChunks))

SpecWords == InitWords /\ [][Next]_vars

(***************************************************************************)
(* The same machine over inputs of operators and numbers: the comparison   *)
(* characters, the dot, a digit, a fraction, a blank and two numeric       *)
(* characters that are not ASCII digits.                                   *)
(***************************************************************************)
OperatorChunks ==
    {<<".", "5">>} \cup
    {<<c>> : c \in {"!", "=", ">", "<", ".", "1", " ", "U+0663", "U+00BD"}}

InitOperators == LexerOver(InputsOf(OperatorChunks, MaxChunks))

SpecOperators == InitOperators /\ [][Next]_vars

(***************************************************************************)
(* The expression printer: a client holds an expression tree and calls     *)
(* to_string on it once.  The trees are leaves wrapped up to MaxWraps      *)
(* times in a Grouping, a Unary, or a Binary with a leaf on the other      *)
(* side; shown holds the strings returned so far.                          *)
(***************************************************************************)
Finite(m, e) == [cls |-> "finite", neg |-> FALSE, m |-> m, e |-> e]

\* 1, 2, 3, 2.5, 0.05, 300, -inf and NaN
Numbers ==
    {Finite(1, 0), Finite(2, 0), Finite(3, 0), Finite(25, -1), Finite(5, -2), Finite(3, 2),
     [cls |-> "inf", neg |-> TRUE, m |-> 0, e |-> 0],
     [cls |-> "nan", neg |-> FALSE, m |-> 0, e |-> 0]}

Leaves ==
    {LiteralNumber(TRUE, n) : n \in Numbers}
        \cup {LiteralNumber(FALSE, NoNumber), LiteralString(FALSE, <<>>),
              LiteralString(TRUE, <<"a", " ", "b">>)}

\* the leaf on the other side of a Binary
Operands == {LiteralNumber(TRUE, Finite(1, 0))}

UnaryOperators == {Ty("Minus"), Ty("Bang")}

BinaryOperators == {Ty("Plus"), [Ty("Keyword") EXCEPT !.kw = "And"]}

RECURSIVE ExprsOf(_)
ExprsOf(n) ==
    IF n = 0 THEN Leaves
    ELSE LET inner == ExprsOf(n - 1)
         IN  inner
               \cup {Grouping(e) : e \in inner}
               \cup {Unary(op, e) : op \in UnaryOperators, e \in inner}
               \cup {Binary(l, op, e) : l \in Operands, op \in BinaryOperators, e \in inner}
               \cup {Binary(e, op, l) : l \in Operands, op \in BinaryOperators, e \in inner}

InitExpr ==
    /\ expr \in ExprsOf(MaxWraps)
    /\ shown = <<>>
    /\ source = <<>>
    /\ driver = "none"
    /\ lexer = new
    /\ pc = "idle"
    /\ result = [Blank EXCEPT !.kind = "Start"]
    /\ scanned = <<>>
    /\ yielded = <<>>
    /\ nones = 0
    /\ status = NoStatus
    /\ prompted = 0

\* expr.to_string()
Display ==
    /\ shown = <<>>
    /\ shown' = <<fmt(expr)>>
    /\ UNCHANGED <<expr, lexing, process>>

NextExpr == Display

SpecExpr == InitExpr /\ [][NextExpr]_vars

(***************************************************************************)
(* The driver (src/src/lib.rs).  It scans with scanner::Scanner, the       *)
(* Lexer's forerunner: the same advance, advance_while, string, number,    *)
(* identifier and comparison arms, no block comments, no Eof token, and    *)
(* an Iterator that hands every scan_token result on.                      *)
(***************************************************************************)
\* the '/' arm of Scanner::scan_token: line comment or Slash
scanner_slash(src, lx) ==
    Bind(peek(src, lx), LAMBDA nxt :
        IF nxt.ch = "/"
        THEN line_comment(src, nxt.lx)
        ELSE [lx |-> nxt.lx, item |-> Ty("Slash")])

scanner_dispatch(src, lx, start, ch) ==
    CASE ch \in DOMAIN SingleChar -> [lx |-> lx, item |-> Ty(SingleChar[ch])]
      [] ch = "/"                 -> scanner_slash(src, lx)
      [] ch \in DOMAIN OneOrTwo   -> one_or_two(src, lx, ch)
      [] ch = "\""                -> string(src, lx, start)
      [] OTHER ->
            IF ch \in is_numeric THEN number(src, lx, start)
            ELSE IF ch \in is_alphabetic THEN identifier(src, lx, start)
            ELSE [lx |-> lx, item |-> UnexpectedCharacter(start, ch)]

\* Scanner::scan_token, and with it Iterator for Scanner::next
scanner_scan_token(src, lx) ==
    Bind(advance_while(src, lx, is_whitespace), LAMBDA ws :
    Bind(advance(src, ws.lx), LAMBDA adv :
        IF adv.ch = NoChar
        THEN [lx |-> adv.lx, item |-> Blank]
        ELSE positioned(scanner_dispatch(src, adv.lx, ws.lx.current, adv.ch),
                        ws.lx.current, ws.lx.pos)))

\* the loop of run: every item of the Scanner is printed with dbg!; after the
\* loop run returns Ok(()), whatever the items were; a panic unwinds it
RECURSIVE run_loop(_, _, _)
run_loop(src, scanner, printed) ==
    Bind(scanner_scan_token(src, scanner), LAMBDA r :
        IF r.item.kind = "None" THEN [printed |-> printed, value |-> "Ok"]
        ELSE IF r.item.kind = "Panic" THEN [printed |-> printed, value |-> "Panic"]
        ELSE run_loop(src, r.lx, Append(printed, r.item)))

run(src) == run_loop(src, new, <<>>)

\* how the process ends after run_file got `value` from run: exit(64) on
\* Err, status 0 when main returns, 101 when a panic unwinds main
run_file_status(value) ==
    IF value = "Err" THEN "exit 64" ELSE IF value = "Panic" THEN "panic 101" ELSE "exit 0"

DriverChunks == {<<c>> : c \in {"@", "\"", "a", "1", " ", "/", "*", "U+00E9"}}

\* what read_line returns: a line with its newline, or nothing at end of input
Lines == {<<>>} \cup {l \o <<"\n">> : l \in InputsOf(DriverChunks, MaxLineChunks)}

InitDriver ==
    /\ driver \in {"run_file", "run_prompt"}
    /\ source \in IF driver = "run_file" THEN InputsOf(DriverChunks, MaxChunks) ELSE {<<>>}
    /\ lexer = new
    /\ pc = "ready"
    /\ result = [Blank EXCEPT !.kind = "Start"]
    /\ scanned = <<>>
    /\ yielded = <<>>
    /\ nones = 0
    /\ expr = NoExpr
    /\ shown = <<>>
    /\ status = NoStatus
    /\ prompted = 0

\* run_file, and main's return after it
RunFile ==
    /\ driver = "run_file"
    /\ pc = "ready"
    /\ Bind(run(source), LAMBDA r :
          /\ scanned' = r.printed
          /\ status' = run_file_status(r.value)
          /\ pc' = IF r.value = "Panic" THEN "panicked" ELSE "exited")
    /\ UNCHANGED <<source, driver, lexer, result, yielded, nones, printing, prompted>>

\* one turn of the loop of run_prompt: a line is read and run, the value of
\* run is dropped
PromptLine ==
    /\ driver = "run_prompt"
    /\ pc = "ready"
    /\ prompted < MaxLines
    /\ \E line \in Lines :
          /\ source' = line
          /\ Bind(run(line), LAMBDA r :
                /\ scanned' = r.printed
                /\ status' = IF r.value = "Panic" THEN "panic 101" ELSE status
                /\ pc' = IF r.value = "Panic" THEN "panicked" ELSE "ready")
    /\ prompted' = prompted + 1
    /\ UNCHANGED <<driver, lexer, result, yielded, nones, printing>>

NextDriver == RunFile \/ PromptLine

SpecDriver == InitDriver /\ [][NextDriver]_vars

(***************************************************************************)
(* Properties.                                                             *)
(***************************************************************************)
\* what the caller has been handed so far, through the entry point it uses
Pulled == IF driver = "next" THEN yielded ELSE scanned

IsToken(item, ty) == item.kind = "Ok" /\ item.ty = ty

IsError(item, ty) == item.kind = "Err" /\ item.ty = ty

Count(items, ty) == Cardinality({i \in 1..Len(items) : IsToken(items[i], ty)})

\* C1: pulling until None yields exactly one Eof token, the Eof is the last
\* item produced, and every pull after it returns None: an Eof is never
\* followed by another item, a pull answered None has the one Eof as the last
\* item before it, and once the Eof is out every further pull is answered
\* None (the run neither panics nor hands out anything else).
C1_EofOnceAndLast ==
    /\ \A i \in 1..Len(Pulled) : IsToken(Pulled[i], "Eof") => i = Len(Pulled)
    /\ Count(Pulled, "Eof") <= 1
    /\ nones > 0 => (Count(Pulled, "Eof") = 1 /\ IsToken(Pulled[Len(Pulled)], "Eof"))
    /\ result.kind = "None" <=> nones > 0
    /\ Count(Pulled, "Eof") = 1 =>
          /\ pc = "ready"
          /\ lexer.at_eof /\ lexer.pos = Len(source)
          /\ IsToken(result, "Eof") \/ result.kind = "None"

\* whitespace-only input, pulled through the iterator: Eof, then None twice
C1_Witness ==
    /\ source = <<"\n", "\n">>
    /\ driver = "next"
    /\ Len(yielded) = 1 /\ IsToken(yielded[1], "Eof")
    /\ nones = 2

\* C2: every scan_token call returns a token, None or one of the three typed
\* errors, on every input: no call panics (no slice of the source outside a
\* character boundary or past its end, no failed unwrap of the number parse).
C2_NeverPanics ==
    /\ pc = "ready"
    /\ result.kind \in {"Start", "Ok", "None", "Err"}
    /\ result.kind = "Err" =>
          result.ty \in {"UnexpectedCharacter", "UnterminatedString", "UnterminatedBlockComment"}

\* the characters a call consumed after the whitespace: the token's source text
Lexeme(item) == SubSeq(source, item.from + 1, item.to)

\* C3: for every token emitted, the byte range [position.start, position.end)
\* of the source buffer is exactly the token's source text, and for Eof it is
\* the empty range at the end of the buffer.
C3_PositionIsText ==
    \A i \in 1..Len(scanned) :
        scanned[i].kind = "Ok" =>
            /\ SliceOk(source, scanned[i].start, scanned[i].end)
            /\ Slice(source, scanned[i].start, scanned[i].end) = Lexeme(scanned[i])
            /\ IsToken(scanned[i], "Eof") => scanned[i].start = ByteLen(source)

\* another pull is possible: the guard of ScanToken and IterNext
CanPull == pc = "ready" /\ nones < MaxNones

\* C4: on an input of N characters repeated pulling eventually returns None:
\* the pulling is never cut short before a None, every scan_token result
\* other than Eof consumed at least one character, and at most N + 1 items
\* are produced.
C4_PullsReachNone ==
    /\ result.kind = "None" \/ CanPull
    /\ \A i \in 1..Len(scanned) :
          ~IsToken(scanned[i], "Eof") => scanned[i].to > scanned[i].from
    /\ Len(scanned) <= Len(source) + 1

NotComment(item) == ~IsToken(item, "Comment")

\* C5: no item yielded by Iterator::next is a Comment token; the comments are
\* scanned and skipped, and everything else scan_token returned is yielded,
\* in the order it was scanned.
C5_CommentsFiltered ==
    driver = "next" =>
        /\ \A i \in 1..Len(yielded) : NotComment(yielded[i])
        /\ yielded = SelectSeq(scanned, NotComment)

\* a comment scanned between two other items, all pulled through the iterator
C5_Witness ==
    /\ driver = "next"
    /\ result.kind = "None"
    /\ \E i \in 2..(Len(scanned) - 2) : IsToken(scanned[i], "Comment")
    /\ Len(yielded) >= 3

\* the type and the payload of an item, without its position
Strip(item) ==
    [kind |-> item.kind, ty |-> item.ty, text |-> item.text, num |-> item.num,
     kw |-> item.kw, ch |-> item.ch]

StripAll(items) == [i \in 1..Len(items) |-> Strip(items[i])]

\* everything a `for item in lexer` loop is handed, stripped; a panic ends it
RECURSIVE pull_all(_, _)
pull_all(src, lx) ==
    Bind(next(src, lx), LAMBDA r :
        IF r.item.kind = "None" THEN <<>>
        ELSE IF r.item.kind = "Panic" THEN <<Strip(r.item)>>
        ELSE <<Strip(r.item)>> \o pull_all(src, r.lx))

\* the run is over: None was returned, or a call panicked
Over == result.kind \in {"None", "Panic"}

\* what the finished run handed out, stripped
Outcome == StripAll(yielded) \o (IF pc = "panicked" THEN <<Strip(result)>> ELSE <<>>)

InComment(i) ==
    \E k \in 1..Len(scanned) :
        IsToken(scanned[k], "Comment") /\ scanned[k].from < i /\ i <= scanned[k].to

\* the source with every character of every scanned comment replaced by a space
Uncommented == [i \in 1..Len(source) |-> IF InComment(i) THEN " " ELSE source[i]]

\* C6: the types and payloads the iterator yields for a source are those it
\* yields for the same source with every comment replaced by whitespace.
C6_CommentsTransparent ==
    (driver = "next" /\ Over) => Outcome = pull_all(Uncommented, new)

StartsWith(item, c1, c2) ==
    /\ item.from + 2 <= Len(source)
    /\ source[item.from + 1] = c1
    /\ source[item.from + 2] = c2

\* Where a block comment closes, read off the text: i characters are consumed
\* and `depth` comments are open; '/*' opens one more and '*/' closes one,
\* both taking two characters, any other character takes one.  The number of
\* characters consumed when the depth first reaches 0, or 0 when it never does.
RECURSIVE Closes(_, _, _)
Closes(src, i, depth) ==
    IF i >= Len(src) THEN 0
    ELSE IF i + 2 <= Len(src) /\ src[i + 1] = "/" /\ src[i + 2] = "*"
    THEN Closes(src, i + 2, depth + 1)
    ELSE IF i + 2 <= Len(src) /\ src[i + 1] = "*" /\ src[i + 2] = "/"
    THEN (IF depth = 1 THEN i + 2 ELSE Closes(src, i + 2, depth - 1))
    ELSE Closes(src, i + 1, depth)

\* C7: block-comment scanning keeps a depth that starts at 1 after '/*', goes
\* up on '/*' and down on '*/' (two characters each), and takes any other
\* character singly; the comment succeeds exactly when the depth first
\* reaches 0, the cursor then just after that '*/', and fails exactly when
\* the input ends with the depth above 0.
C7_BlockCommentNesting ==
    \A k \in 1..Len(scanned) :
        /\ StartsWith(scanned[k], "/", "*") =>
              IF Closes(source, scanned[k].from + 2, 1) # 0
              THEN /\ IsToken(scanned[k], "Comment")
                   /\ scanned[k].to = Closes(source, scanned[k].from + 2, 1)
              ELSE /\ IsError(scanned[k], "UnterminatedBlockComment")
                   /\ scanned[k].to = Len(source)
        /\ IsError(scanned[k], "UnterminatedBlockComment") => StartsWith(scanned[k], "/", "*")
        /\ IsToken(scanned[k], "Comment") =>
              StartsWith(scanned[k], "/", "*") \/ StartsWith(scanned[k], "/", "/")

\* '/*/**/*/' scanned as one comment of eight characters, then Eof
C7_Witness ==
    /\ source = <<"/", "*", "/", "*", "*", "/", "*", "/">>
    /\ Len(scanned) = 2
    /\ IsToken(scanned[1], "Comment") /\ scanned[1].to = 8
    /\ IsToken(scanned[2], "Eof")

\* the item is the last one so far, or the one before a final Eof
ThenOnlyEof(k) ==
    \/ k = Len(scanned)
    \/ k = Len(scanned) - 1 /\ IsToken(scanned[k + 1], "Eof")

\* C8: an UnterminatedBlockComment has the span of the outermost '/*': it
\* starts at the offset in the buffer of the '/*' that opened the comment and
\* has length 2; the error is returned once, with the cursor at the end of
\* the input, and the next pull yields Eof.
C8_UnterminatedCommentSpan ==
    \A k \in 1..Len(scanned) :
        IsError(scanned[k], "UnterminatedBlockComment") =>
            /\ StartsWith(scanned[k], "/", "*")
            /\ scanned[k].offset = ByteOffset(source, scanned[k].from)
            /\ scanned[k].len = 2
            /\ scanned[k].to = Len(source)
            /\ ThenOnlyEof(k)
            /\ pc = "ready"

\* every result of repeated scan_token calls, stripped; a panic ends it
RECURSIVE scan_all(_, _)
scan_all(src, lx) ==
    Bind(scan_token(src, lx), LAMBDA r :
        IF r.item.kind = "None" THEN <<>>
        ELSE IF r.item.kind = "Panic" THEN <<Strip(r.item)>>
        ELSE <<Strip(r.item)>> \o scan_all(src, r.lx))

Dispatched ==
    DOMAIN SingleChar \cup DOMAIN OneOrTwo \cup {"/", "\""} \cup is_numeric \cup is_alphabetic

\* what the calls after the k-th item returned in the finished run, stripped
After(k) ==
    StripAll(SubSeq(scanned, k + 1, Len(scanned)))
        \o (IF pc = "panicked" THEN <<Strip(result)>> ELSE <<>>)

\* C9: a first character that matches no dispatch rule gives
\* UnexpectedCharacter with that character and a span of length 1 at its
\* offset in the buffer, the cursor just past it, and the pulls that follow
\* give what scanning the rest of the input on its own gives.
C9_UnexpectedCharacter ==
    \A k \in 1..Len(scanned) :
        /\ IsError(scanned[k], "UnexpectedCharacter") <=>
              (scanned[k].from < Len(source) /\ source[scanned[k].from + 1] \notin Dispatched)
        /\ IsError(scanned[k], "UnexpectedCharacter") =>
              /\ scanned[k].ch = source[scanned[k].from + 1]
              /\ scanned[k].offset = ByteOffset(source, scanned[k].from)
              /\ scanned[k].len = 1
              /\ scanned[k].to = scanned[k].from + 1
              /\ Over =>
                    After(k) = scan_all(SubSeq(source, scanned[k].to + 1, Len(source)), new)

\* C10: UnterminatedString is returned exactly when a '"' is dispatched and
\* no further '"' follows; its span is the opening quote (its offset in the
\* buffer, length 1), the rest of the input is consumed, and the next pull
\* yields Eof.
C10_UnterminatedString ==
    \A k \in 1..Len(scanned) :
        /\ IsError(scanned[k], "UnterminatedString") <=>
              /\ scanned[k].from < Len(source)
              /\ source[scanned[k].from + 1] = "\""
              /\ \A j \in (scanned[k].from + 2)..Len(source) : source[j] # "\""
        /\ IsError(scanned[k], "UnterminatedString") =>
              /\ scanned[k].offset = ByteOffset(source, scanned[k].from)
              /\ scanned[k].len = 1
              /\ scanned[k].to = Len(source)
              /\ ThenOnlyEof(k)
              /\ pc = "ready"

\* what the scan_token calls of the run returned, a panic as the last of them
Results == scanned \o (IF pc = "panicked" THEN <<result>> ELSE <<>>)

\* the call was dispatched on the character c
DispatchedOn(item, c) == item.from < Len(source) /\ source[item.from + 1] = c

\* the first '"' after the i-th character of the source, or 0 when none follows
ClosingQuote(i) ==
    IF \E j \in (i + 1)..Len(source) : source[j] = "\""
    THEN FirstIn(SubSeq(source, i + 1, Len(source)), {"\""}) + i
    ELSE 0

\* C11: every string literal that is terminated gives a String token whose
\* payload is exactly the source text strictly between the opening quote and
\* the first quote after it, whatever that text holds (backslashes, newlines,
\* multi-byte characters), taken raw; the closing quote is consumed and is
\* not part of the payload.
C11_StringPayload ==
    \A k \in 1..Len(Results) :
        /\ IsToken(Results[k], "String") => DispatchedOn(Results[k], "\"")
        /\ (DispatchedOn(Results[k], "\"") /\ ClosingQuote(Results[k].from + 1) # 0) =>
              /\ IsToken(Results[k], "String")
              /\ Results[k].text =
                    SubSeq(source, Results[k].from + 2, ClosingQuote(Results[k].from + 1) - 1)
              /\ Results[k].to = ClosingQuote(Results[k].from + 1)

\* the 1-based number of the line that holds the character after the first i
LineAt(i) == 1 + Cardinality({j \in 1..i : source[j] = "\n"})

\* C12: every token scan_token returns carries the line of its start (the
\* line before dispatch, after the leading whitespace), also when its lexeme
\* spans several lines; position.start is the offset of its first character
\* and position.end the offset after its last.
C12_PositionAtStart ==
    \A k \in 1..Len(scanned) :
        scanned[k].kind = "Ok" =>
            /\ scanned[k].line = LineAt(scanned[k].from)
            /\ scanned[k].start = ByteOffset(source, scanned[k].from)
            /\ scanned[k].end = ByteOffset(source, scanned[k].to)

\* what the values of the model's literals print as, and the operators' lexemes
ValueText(e) ==
    IF e.ty = "String" THEN e.text
    ELSE CASE e.num = Finite(1, 0)  -> <<"1">>
           [] e.num = Finite(2, 0)  -> <<"2">>
           [] e.num = Finite(3, 0)  -> <<"3">>
           [] e.num = Finite(25, -1) -> <<"2", ".", "5">>
           [] e.num = Finite(5, -2) -> <<"0", ".", "0", "5">>
           [] e.num = Finite(3, 2)  -> <<"3", "0", "0">>
           [] e.num.cls = "inf"     -> <<"-", "i", "n", "f">>
           [] e.num.cls = "nan"     -> <<"N", "a", "N">>

OperatorText(token) ==
    CASE token.ty = "Minus"   -> <<"-">>
      [] token.ty = "Bang"    -> <<"!">>
      [] token.ty = "Plus"    -> <<"+">>
      [] token.ty = "Keyword" -> <<"a", "n", "d">>

\* the parts of a printed form between '(' and ')', joined by single spaces
Parenthesised(parts) ==
    <<"(">> \o parts[1]
        \o (IF Len(parts) > 1 THEN <<" ">> \o parts[2] ELSE <<>>)
        \o (IF Len(parts) > 2 THEN <<" ">> \o parts[3] ELSE <<>>)
        \o <<")">>

RECURSIVE PrefixForm(_)
PrefixForm(e) ==
    IF e.kind = "Literal" THEN (IF e.some THEN ValueText(e) ELSE <<"n", "i", "l">>)
    ELSE IF e.kind = "Grouping"
    THEN Parenthesised(<< <<"g", "r", "o", "u", "p">>, PrefixForm(e.expr) >>)
    ELSE IF e.kind = "Unary"
    THEN Parenthesised(<<OperatorText(e.operator), PrefixForm(e.rhs)>>)
    ELSE Parenthesised(<<OperatorText(e.operator), PrefixForm(e.lhs), PrefixForm(e.rhs)>>)

\* C13: the string an expression tree displays as is its fully parenthesised
\* prefix form, at any nesting: '(' operator ' ' lhs ' ' rhs ')' for a
\* Binary, '(' operator ' ' rhs ')' for a Unary, '(group ' inner ')' for a
\* Grouping, and for a literal its value, or 'nil' when it holds none.
C13_DisplayPrefixForm ==
    shown # <<>> => shown = <<PrefixForm(expr)>>

\* a tree with every kind of expression: 1 + (-3) grouped prints "(+ 1 (group (- 3)))"
C13_Witness ==
    /\ expr = Binary(LiteralNumber(TRUE, Finite(1, 0)), Ty("Plus"),
                     Grouping(Unary(Ty("Minus"), LiteralNumber(TRUE, Finite(3, 0)))))
    /\ shown = << <<"(", "+", " ", "1", " ", "(", "g", "r", "o", "u", "p", " ",
                    "(", "-", " ", "3", ")", ")", ")">> >>

\* the characters consumed once the line that holds the character after the
\* first i is consumed with its newline: up to the first '\n' after them, or
\* the whole source when no '\n' follows
LineEnd(i) ==
    IF \E j \in (i + 1)..Len(source) : source[j] = "\n"
    THEN FirstIn(SubSeq(source, i + 1, Len(source)), {"\n"}) + i
    ELSE Len(source)

\* C14: a '/' followed by '/' gives a Comment token that consumes everything
\* up to the next '\n' and that '\n' too if there is one: after every line
\* comment, one with an empty body included, the cursor is just past the
\* newline, or at the end of the input when there is no newline.
C14_LineComment ==
    \A k \in 1..Len(scanned) :
        StartsWith(scanned[k], "/", "/") =>
            /\ IsToken(scanned[k], "Comment")
            /\ scanned[k].to = LineEnd(scanned[k].from + 2)

\* C15: no lookahead is outstanding when scan_token is entered nor when
\* advance_while is entered, at any of its call sites (whitespace skip,
\* line-comment skip, string body, digit runs, identifier run): the
\* multi-peek index is 0 there, so the first peek sees the character that
\* advance would consume next.
C15_NoStaleLookahead ==
    /\ pc = "ready" => lexer.index = 0
    /\ lexer.stale = 0

\* the one-character and the two-character token of each comparison character
Comparison ==
    [c \in {"!", "=", ">", "<"} |->
        CASE c = "!" -> [one |-> "Bang", two |-> "BangEq"]
          [] c = "=" -> [one |-> "Equal", two |-> "EqualEq"]
          [] c = ">" -> [one |-> "Greater", two |-> "GreaterEq"]
          [] c = "<" -> [one |-> "Less", two |-> "LessEq"]]

\* the characters before the first one after the i-th that is not whitespace
NextStart(i) == i + FirstIn(SubSeq(source, i + 1, Len(source)), Chars \ is_whitespace) - 1

\* the call after the one that gave Results[k], if there was one, started at
\* the first character after the lexeme that is not whitespace
Resumes(k) == k < Len(Results) => Results[k + 1].from = NextStart(Results[k].to)

\* C16: '!', '=', '>' or '<' directly followed by '=' gives BangEq, EqualEq,
\* GreaterEq or LessEq and consumes both characters; followed by anything
\* else, or by nothing, it gives Bang, Equal, Greater or Less and consumes
\* that one character only: the character peeked starts the next token.
\* These tokens come from nowhere else.
C16_OneOrTwoCharacters ==
    \A k \in 1..Len(Results) :
        /\ \A c \in DOMAIN Comparison :
              DispatchedOn(Results[k], c) =>
                  IF Results[k].from + 2 <= Len(source) /\ source[Results[k].from + 2] = "="
                  THEN /\ IsToken(Results[k], Comparison[c].two)
                       /\ Results[k].to = Results[k].from + 2
                       /\ Resumes(k)
                  ELSE /\ IsToken(Results[k], Comparison[c].one)
                       /\ Results[k].to = Results[k].from + 1
                       /\ Resumes(k)
        /\ \A c \in DOMAIN Comparison :
              (IsToken(Results[k], Comparison[c].one) \/ IsToken(Results[k], Comparison[c].two))
                  => DispatchedOn(Results[k], c)

\* '===' scanned to the end: EqualEq, then Equal, then Eof
C16_Witness ==
    /\ source = <<"=", "=", "=">>
    /\ Len(scanned) = 3
    /\ IsToken(scanned[1], "EqualEq") /\ IsToken(scanned[2], "Equal")
    /\ IsToken(scanned[3], "Eof")

\* the length of the run of digits that starts after the first i characters,
\* a digit being what the dispatch and the digit runs take for one
DigitRun(i) == FirstIn(SubSeq(source, i + 1, Len(source)), Chars \ is_numeric) - 1

\* where the fraction ends, if one starts after the first a characters
FractionEnd(a) ==
    IF a + 2 <= Len(source) /\ source[a + 1] = "." /\ source[a + 2] \in is_numeric
    THEN a + 1 + DigitRun(a + 1)
    ELSE a

\* where the number lexeme ends whose first digit comes after i characters
NumberEnd(i) == FractionEnd(i + DigitRun(i))

\* no character before the end of the item's lexeme takes more than one byte
AsciiSoFar(item) == ByteOffset(source, item.to) = item.to

Handed(item) == IsToken(item, "Number") \/ (item.kind = "Panic" /\ item.ty = "unwrap")

\* one or more decimal digits, optionally followed by '.' and one or more
\* decimal digits; dot is where the first '.' is, or past the end
DecimalAround(t, dot) ==
    /\ dot > 1
    /\ IsDigits(SubSeq(t, 1, dot - 1))
    /\ dot <= Len(t) => (dot < Len(t) /\ IsDigits(SubSeq(t, dot + 1, Len(t))))

IsDecimalLiteral(t) == DecimalAround(t, FirstIn(t, {"."}))

\* C18: every text number() hands to the float parser is a decimal literal
\* the parser accepts: decimal digits, optionally '.' and decimal digits,
\* whichever character the dispatch took for numeric and whichever
\* characters the digit runs took.
C18_ParsableLiteral ==
    \A k \in 1..Len(Results) :
        Handed(Results[k]) =>
            /\ IsDecimalLiteral(Results[k].literal)
            /\ ParseF64(Results[k].literal).ok

Keywords ==
    {"Let", "Fn", "Return", "Class", "Super", "This", "And", "Or", "If", "Else", "True",
     "False", "For", "While", "Nil", "Print"}

\* where the identifier lexeme ends whose first character comes after i
\* characters: after the maximal run of alphanumerics and underscores
IdentifierEnd(i) ==
    i + FirstIn(SubSeq(source, i + 2, Len(source)), Chars \ (is_alphanumeric \cup {"_"}))

\* the reserved word the text is, or NoKeyword
ReservedWord(t) ==
    IF \E k \in Keywords : keyword_lexeme(k) = t
    THEN CHOOSE k \in Keywords : keyword_lexeme(k) = t
    ELSE NoKeyword

\* C19: an identifier lexeme is its first, alphabetic, character and the
\* maximal run of alphanumeric characters and underscores after it.  The
\* call returns Keyword(k) exactly when the whole lexeme is the reserved word
\* k, in that very case of letters, and otherwise Identifier with exactly
\* the lexeme as its text; an underscore does not start an identifier.
C19_IdentifierOrKeyword ==
    \A k \in 1..Len(Results) :
        /\ (IsToken(Results[k], "Identifier") \/ IsToken(Results[k], "Keyword")) =>
              /\ Results[k].from < Len(source)
              /\ source[Results[k].from + 1] \in is_alphabetic
        /\ DispatchedOn(Results[k], "_") => IsError(Results[k], "UnexpectedCharacter")
        /\ (Results[k].from < Len(source) /\ source[Results[k].from + 1] \in is_alphabetic) =>
              /\ Results[k].to = IdentifierEnd(Results[k].from)
              /\ IF ReservedWord(Lexeme(Results[k])) # NoKeyword
                 THEN /\ IsToken(Results[k], "Keyword")
                      /\ Results[k].kw = ReservedWord(Lexeme(Results[k]))
                 ELSE /\ IsToken(Results[k], "Identifier")
                      /\ Results[k].text = Lexeme(Results[k])

\* C20: `current` is the byte offset in the source buffer of the next
\* unconsumed character, after any sequence of advance calls: every advance
\* that consumes a character adds that character's width in bytes, and an
\* advance at the end of the input leaves it as it is.
C20_CurrentIsByteOffset ==
    lexer.current = ByteOffset(source, lexer.pos)

\* the lexer keeps its line and its current
SameLineAndCurrent(lx) == lx.line = lexer.line /\ lx.current = lexer.current

\* C21: in every state of the Lexer `line` is 1 plus the number of '\n'
\* characters consumed so far, however they were consumed (as whitespace, in
\* a string literal, at the end of a line comment, in a block comment), and
\* peeking, once or twice, or resetting the peek changes neither `line` nor
\* `current`.
C21_LineCountsNewlines ==
    /\ lexer.line = LineAt(lexer.pos)
    /\ SameLineAndCurrent(peek(source, lexer).lx)
    /\ SameLineAndCurrent(peek(source, peek(source, lexer).lx).lx)
    /\ SameLineAndCurrent(reset_peek(peek(source, lexer).lx))

\* a newline skipped as whitespace and one consumed inside a block comment:
\* the lexer is on line 3
C21_Witness ==
    /\ source = <<"\n", "/", "*", "\n", "*", "/">>
    /\ Len(scanned) = 1 /\ IsToken(scanned[1], "Comment")
    /\ lexer.pos = 6
    /\ lexer.line = 3

\* C22: every token scan_token returns has start <= end, and its end is the
\* Lexer's cursor offset `current` as the call returns, the token's text just
\* consumed; an Eof has start = end = the cursor, which is at the end of the
\* input.
C22_EndIsCursor ==
    /\ \A k \in 1..Len(scanned) :
          scanned[k].kind = "Ok" => scanned[k].start <= scanned[k].end
    /\ result.kind = "Ok" =>
          /\ result.end = lexer.current
          /\ result.to = lexer.pos
    /\ IsToken(result, "Eof") =>
          /\ result.start = result.end
          /\ result.from = result.to
          /\ lexer.pos = Len(source)

\* the String token of '"a"' is just returned, a digit still ahead: end = 3
C22_Witness ==
    /\ source = <<"\"", "a", "\"", "1">>
    /\ IsToken(result, "String")
    /\ result.start = 0 /\ result.end = 3
    /\ lexer.current = 3

\* where a result says it begins: a token's start, an error's span
Begin(item) == IF item.kind = "Ok" THEN item.start ELSE item.offset

\* the characters from the i-th on to the j-th are all whitespace
OnlyWhitespace(i, j) == \A n \in i..j : source[n] \in is_whitespace

\* result b comes after result a in the source: it starts at or after the
\* place where the call of a stopped, only whitespace lies between the two,
\* and when a is a token, b begins at or after the end of a
ComesAfter(a, b) ==
    /\ a.to <= b.from
    /\ OnlyWhitespace(a.to + 1, b.from)
    /\ (a.kind = "Ok" /\ b.kind \in {"Ok", "Err"}) => a.end <= Begin(b)

\* the results so far are in source order, and only whitespace comes before
\* the first of them
InSourceOrder ==
    /\ Results # <<>> => OnlyWhitespace(1, Results[1].from)
    /\ \A k \in 1..(Len(Results) - 1) : ComesAfter(Results[k], Results[k + 1])

\* the first result a step adds begins at or after the cursor the step found
BeginsAtCursor ==
    (Len(Results') > Len(Results) /\ Results'[Len(Results) + 1].kind \in {"Ok", "Err"}) =>
        /\ lexer.current <= Begin(Results'[Len(Results) + 1])
        /\ lexer.pos <= Results'[Len(Results) + 1].from

\* C23: over any sequence of scan_token calls on one Lexer the cursor never
\* goes back, and each result begins at or after the cursor the call before
\* it left, with nothing but whitespace between the two: the results come in
\* source order, do not overlap, and no character that is not whitespace is
\* skipped between them.
C23_SourceOrder ==
    [][/\ lexer.current <= lexer'.current
       /\ lexer.pos <= lexer'.pos
       /\ BeginsAtCursor
       /\ InSourceOrder']_vars

\* 'a', two newlines, '1': an Identifier, then a Number that starts at 3
C23_Witness ==
    /\ source = <<"a", "\n", "\n", "1">>
    /\ Len(scanned) = 2
    /\ IsToken(scanned[1], "Identifier") /\ scanned[1].end = 1
    /\ IsToken(scanned[2], "Number") /\ scanned[2].start = 3

\* the source that was run held a lexical error: one was among the items
HasLexicalError == \E k \in 1..Len(scanned) : scanned[k].kind = "Err"

\* C24: in file mode a source with at least one lexical error makes run_file
\* end the process with an abnormal exit status once the items are out; in
\* interactive mode what a line gives depends on that line alone, and after
\* a line with an error the prompt loop goes on.
C24_ErrorsAndExitStatus ==
    /\ (driver = "run_file" /\ pc # "ready" /\ HasLexicalError) =>
          status \notin {NoStatus, "exit 0"}
    /\ (driver = "run_prompt" /\ pc = "ready") =>
          /\ scanned = run(source).printed
          /\ status = NoStatus

====
